---- MODULE Spec2Model ----
(***************************************************************************)
(* Model of data/download_musiccaps.ipynb: download_clip (window           *)
(* adjustment, retry loop around the external yt-dlp invocation, the       *)
(* post-condition check) and main.process, the per-row driver that         *)
(* ds.map runs over num_proc worker processes.                             *)
(*                                                                         *)
(* Two specifications share the actions of download_clip:                  *)
(*   SpecFetch  one direct call of download_clip, arguments drawn from     *)
(*              bounded sets (num_attempts from 0 on);                     *)
(*   Spec       main(): every worker runs process() over its shard of      *)
(*              the dataset, calling download_clip with its defaults.      *)
(* FairSpec is Spec with the workers scheduled fairly, FairSpecFetch is    *)
(* SpecFetch with the call running on; SpecRerun is Spec with main() run   *)
(* a second time over the same dataset and the same data_dir.              *)
(***************************************************************************)
EXTENDS Integers, Sequences, FiniteSets, TLC

VARIABLES ds, fs, proc, frame, out, hist, rowlog, runs

vars == <<ds, fs, proc, frame, out, hist, rowlog, runs>>

(* ------------------------------ bounds -------------------------------- *)

\* num_proc, the argument of main: the model runs main(num_proc=2)
NumProc == 2
\* rows of the dataset
NumRows == 3
\* largest num_attempts a direct call is given
MaxAttempts == 3
\* start_time of a direct call ranges over -1..MaxTime
MaxTime == 17

\* default of download_clip's num_attempts, the value process() calls it with
DefaultNumAttempts == 5

\* cap on the invocations of one call (a call with num_attempts = 0 never
\* reaches its budget)
MaxInvocations == IF MaxAttempts > DefaultNumAttempts
                  THEN MaxAttempts + 2 ELSE DefaultNumAttempts + 2

Workers == 1..NumProc
YtIds == {"a", "b"}
StartTimes == (-1..MaxTime) \cup {30}
EndTimes == {0, 12, 40}
\* the rows a dataset is made of
Catalog == {[ytid |-> "a", start_s |-> 30, end_s |-> 40],
            [ytid |-> "b", start_s |-> 5, end_s |-> 12]}

(* --------------------------- pure helpers ----------------------------- *)

data_dir == "./music_data"
url_base == "https://www.youtube.com/watch?v="

\* (mutant) the path does not depend on the identifier
outfile_path_Fixed(dir, ytid) == dir \o "/" \o "clip.wav"

\* str(data_dir / f"{ytid}.wav")
outfile_path(dir, ytid) == dir \o "/" \o ytid \o ".wav"

Paths == {outfile_path(data_dir, y) : y \in YtIds}

\* os.path.exists
path_exists(files, path) == files[path].exists

\* (mutant) no branch: the lead-in is taken whatever the start_time
AdjustWindow_NoBranch(start_time, end_time) ==
    <<start_time - 15, end_time + 15>>

\* (mutant) the boundary start_time = 15 takes the first branch
AdjustWindow_Ge(start_time, end_time) ==
    IF start_time >= 15
    THEN <<start_time - 15, end_time + 15>>
    ELSE <<start_time, end_time + 30>>

\* the if/else on int(start_time) > 15
AdjustWindow(start_time, end_time) ==
    IF start_time > 15
    THEN <<start_time - 15, end_time + 15>>
    ELSE <<start_time, end_time + 30>>

\* the f-string handed to the shell
Command(output_filename, window, video_identifier) ==
    "yt-dlp --quiet --no-warnings -x --audio-format wav -f bestaudio -o \""
    \o output_filename \o "\" --download-sections \"*"
    \o ToString(window[1]) \o "-" \o ToString(window[2]) \o "\" "
    \o url_base \o video_identifier

\* what the n-th invocation of a call prints (stdout + stderr)
ToolOutput(n) == "yt-dlp output " \o ToString(n)

\* (mutant) one failure too many before giving up
BudgetExhausted_OffByOne(attempts, num_attempts) == attempts = num_attempts + 1

\* if attempts == num_attempts
BudgetExhausted(attempts, num_attempts) == attempts = num_attempts

NoRet == [status |-> FALSE, msg |-> ""]

NoFrame ==
    [pc |-> "none", video_identifier |-> "", output_filename |-> "",
     start_time |-> 0, end_time |-> 0, num_attempts |-> 0, status |-> FALSE,
     command |-> "", attempts |-> 0, output |-> "", ret |-> NoRet]

\* the call: the parameters bound, nothing executed yet
CallFrame(video_identifier, output_filename, start_time, end_time, num_attempts) ==
    [NoFrame EXCEPT !.pc = "call",
                    !.video_identifier = video_identifier,
                    !.output_filename = output_filename,
                    !.start_time = start_time,
                    !.end_time = end_time,
                    !.num_attempts = num_attempts]

\* status = False; the window adjustment; command; attempts = 0
Enter(f) ==
    LET w == AdjustWindow(f.start_time, f.end_time) IN
    [f EXCEPT !.pc = "loop",
              !.status = FALSE,
              !.start_time = w[1],
              !.end_time = w[2],
              !.command = Command(f.output_filename, w, f.video_identifier),
              !.attempts = 0]

\* (mutant) the window is adjusted again before every retry
OnFailure_Readjust(f, err_output) ==
    LET a == f.attempts + 1
        w == IF f.start_time > 15
             THEN <<f.start_time - 15, f.end_time + 15>>
             ELSE <<f.start_time, f.end_time + 30>>
    IN
    IF a = f.num_attempts
    THEN [f EXCEPT !.attempts = a,
                   !.ret = [status |-> f.status, msg |-> err_output],
                   !.pc = "ret"]
    ELSE [f EXCEPT !.attempts = a,
                   !.start_time = w[1],
                   !.end_time = w[2],
                   !.command = "yt-dlp --quiet --no-warnings -x --audio-format wav -f bestaudio -o \""
                               \o f.output_filename \o "\" --download-sections \"*"
                               \o ToString(w[1]) \o "-" \o ToString(w[2]) \o "\" "
                               \o url_base \o f.video_identifier]

\* (mutant) the return of the exhausted budget is lost: the loop goes on
OnFailure_NoReturn(f, err_output) == [f EXCEPT !.attempts = f.attempts + 1]

\* (mutant) the exhausted budget is raised instead of returned
OnFailure_Raise(f, err_output) ==
    LET a == f.attempts + 1 IN
    IF a = f.num_attempts
    THEN [f EXCEPT !.attempts = a, !.pc = "raised"]
    ELSE [f EXCEPT !.attempts = a]

\* except CalledProcessError as err
OnFailure(f, err_output) ==
    LET a == f.attempts + 1 IN
    IF BudgetExhausted(a, f.num_attempts)
    THEN [f EXCEPT !.attempts = a,
                   !.ret = [status |-> f.status, msg |-> err_output],
                   !.pc = "ret"]
    ELSE [f EXCEPT !.attempts = a]

\* (mutant) no break: the loop goes on after a successful invocation
OnSuccess_NoBreak(f, output) == [f EXCEPT !.output = output]

\* else: break
OnSuccess(f, output) == [f EXCEPT !.output = output, !.pc = "post"]

\* the message of the return after the loop
PostMessage(f) == "Downloaded"

\* (mutant) the exit code alone decides
PostCondition_ExitCode(f, files) ==
    [f EXCEPT !.status = TRUE,
              !.ret = [status |-> TRUE, msg |-> "Downloaded"],
              !.pc = "ret"]

\* (mutant) the status of the first line is returned, the check is lost
PostCondition_NoCheck(f, files) ==
    [f EXCEPT !.ret = [status |-> f.status, msg |-> "Downloaded"],
              !.pc = "ret"]

\* status = os.path.exists(output_filename); return status, 'Downloaded'
PostCondition(f, files) ==
    LET st == path_exists(files, f.output_filename) IN
    [f EXCEPT !.status = st,
              !.ret = [status |-> st, msg |-> PostMessage(f)],
              !.pc = "ret"]

\* the external tool's effect on the file system: it may or may not leave a
\* file at the destination, whatever its exit code
\* (writers: the rows whose invocations wrote it, 0 for a direct call)
ToolEffect(files, path, r, wrote) ==
    IF wrote /\ path \in DOMAIN files
    THEN [files EXCEPT ![path] = [exists |-> TRUE, writers |-> @.writers \cup {r}]]
    ELSE files

(* ------------------------- ds.map's sharding -------------------------- *)

Min(a, b) == IF a < b THEN a ELSE b

\* contiguous shards: worker w gets rows ShardStart(w)+1 .. ShardStart(w+1)
ShardStart(w) ==
    LET n == Len(ds)
        k == w - 1
    IN (n \div NumProc) * k + Min(k, n % NumProc)

Shard(w) == (ShardStart(w) + 1)..ShardStart(w + 1)

WorkerOf(r) == CHOOSE w \in Workers : r \in Shard(w)

(* ------------------------------- state -------------------------------- *)

\* what the model remembers of a call: its arguments as passed, the number of
\* invocations made, the first one that succeeded, the output of the last one,
\* what the post-condition check saw, the command lines its invocations ran
NoHist == [start_time |-> 0, end_time |-> 0, invocations |-> 0, firstOk |-> 0,
           lastOut |-> "", observed |-> "none", cmds |-> {}]
CallHist(start_time, end_time) ==
    [NoHist EXCEPT !.start_time = start_time, !.end_time = end_time]
\* what the model remembers of a row: what the existence check of process()
\* saw, whether the tool was invoked for it, whether its call exhausted the
\* budget, what the post-condition check of its call saw
NoRow == [examined |-> "unseen", invoked |-> FALSE, exhausted |-> FALSE,
          observed |-> "none"]
NoOut == [done |-> FALSE, audio |-> "", download_status |-> FALSE]
NoProc == [pc |-> "idle", cur |-> 0, status |-> FALSE, outfile_path |-> ""]

\* the runs of main(): the number of the current one and, from the second
\* on, the download_status the run before gave each row and the rows whose
\* destination file existed when this run started
FirstRun == [n |-> 1, status |-> <<>>, present |-> {}]

FileStates == {[exists |-> FALSE, writers |-> {}], [exists |-> TRUE, writers |-> {}]}

Rows == 1..Len(ds)

\* main(): the dataset is loaded, every worker is at the first row of its shard
Init ==
    /\ ds \in [1..NumRows -> Catalog]
    /\ fs \in [Paths -> FileStates]
    /\ proc = [w \in Workers |-> [NoProc EXCEPT !.cur = ShardStart(w) + 1]]
    /\ frame = [w \in Workers |-> NoFrame]
    /\ hist = [w \in Workers |-> NoHist]
    /\ out = [r \in 1..NumRows |-> NoOut]
    /\ rowlog = [r \in 1..NumRows |-> NoRow]
    /\ runs = FirstRun

\* one direct call download_clip(id, path, start, end, num_attempts=n)
InitFetch ==
    /\ ds = <<>>
    /\ fs \in [Paths -> FileStates]
    /\ proc = [w \in Workers |-> NoProc]
    /\ \E y \in YtIds, s \in StartTimes, e \in EndTimes, n \in 0..MaxAttempts :
         frame = [w \in Workers |->
                    IF w = 1
                    THEN CallFrame(y, outfile_path(data_dir, y), s, e, n)
                    ELSE NoFrame]
    /\ hist = [w \in Workers |->
                 IF w = 1 THEN CallHist(frame[w].start_time, frame[w].end_time)
                 ELSE NoHist]
    /\ out = <<>>
    /\ rowlog = <<>>
    /\ runs = FirstRun

(* ------------------------------ actions ------------------------------- *)

\* (mutant) every row is downloaded again
NeedsDownload_Always(files, path) == TRUE

\* (mutant) the not is lost: existing files are downloaded, absent ones skipped
NeedsDownload_Inverted(files, path) == files[path].exists

\* if not os.path.exists(outfile_path)
NeedsDownload(files, path) == ~path_exists(files, path)

\* process(example) up to the first invocation of the tool: the path, the
\* existence check and, when the file is absent, the entry of download_clip
ProcessExamine(w) ==
    /\ proc[w].pc = "idle"
    /\ proc[w].cur \in Shard(w)
    /\ LET r == proc[w].cur
           example == ds[r]
           path == outfile_path(data_dir, example.ytid)
       IN IF NeedsDownload(fs, path)
          THEN /\ proc' = [proc EXCEPT ![w] = [@ EXCEPT !.pc = "call",
                                                        !.status = FALSE,
                                                        !.outfile_path = path]]
               /\ frame' = [frame EXCEPT ![w] =
                              Enter(CallFrame(example.ytid, path, example.start_s,
                                              example.end_s, DefaultNumAttempts))]
               /\ rowlog' = [rowlog EXCEPT ![r].examined =
                               IF path_exists(fs, path) THEN "present" ELSE "absent"]
               /\ hist' = [hist EXCEPT ![w] = CallHist(example.start_s, example.end_s)]
          ELSE /\ proc' = [proc EXCEPT ![w] = [@ EXCEPT !.pc = "store",
                                                        !.status = TRUE,
                                                        !.outfile_path = path]]
               /\ frame' = frame
               /\ hist' = hist
               /\ rowlog' = [rowlog EXCEPT ![r].examined =
                               IF path_exists(fs, path) THEN "present" ELSE "absent"]
    /\ UNCHANGED <<runs, ds, fs, out>>

\* a direct call: download_clip from its first line to the top of the loop
DownloadClipEnter(w) ==
    /\ frame[w].pc = "call"
    /\ frame' = [frame EXCEPT ![w] = Enter(@)]
    /\ UNCHANGED <<runs, ds, fs, proc, out, hist, rowlog>>

\* the row an invocation works for (0: a direct call)
RowOf(w) == IF proc[w].pc = "call" THEN proc[w].cur ELSE 0

RowInvoked(w, exhausted) ==
    IF proc[w].pc = "call"
    THEN [rowlog EXCEPT ![proc[w].cur].invoked = TRUE,
                        ![proc[w].cur].exhausted = exhausted]
    ELSE rowlog

\* subprocess.check_output raises CalledProcessError
InvokeFail(w) ==
    /\ frame[w].pc = "loop"
    /\ hist[w].invocations < MaxInvocations
    /\ LET n == hist[w].invocations + 1 IN
       /\ \E wrote \in BOOLEAN :
            fs' = ToolEffect(fs, frame[w].output_filename, RowOf(w), wrote)
       /\ frame' = [frame EXCEPT ![w] = OnFailure(@, ToolOutput(n))]
       /\ hist' = [hist EXCEPT ![w].invocations = n, ![w].lastOut = ToolOutput(n),
                               ![w].cmds = @ \cup {frame[w].command}]
       /\ rowlog' = RowInvoked(w, frame'[w].pc = "ret")
    /\ UNCHANGED <<runs, ds, proc, out>>

\* subprocess.check_output returns
InvokeOk(w) ==
    /\ frame[w].pc = "loop"
    /\ hist[w].invocations < MaxInvocations
    /\ LET n == hist[w].invocations + 1 IN
       /\ \E wrote \in BOOLEAN :
            fs' = ToolEffect(fs, frame[w].output_filename, RowOf(w), wrote)
       /\ frame' = [frame EXCEPT ![w] = OnSuccess(@, ToolOutput(n))]
       /\ hist' = [hist EXCEPT ![w].invocations = n, ![w].lastOut = ToolOutput(n),
                               ![w].firstOk = IF @ = 0 THEN n ELSE @,
                               ![w].cmds = @ \cup {frame[w].command}]
       /\ rowlog' = RowInvoked(w, FALSE)
    /\ UNCHANGED <<runs, ds, proc, out>>

\* the check after the loop, and the return
PostCheck(w) ==
    /\ frame[w].pc = "post"
    /\ frame' = [frame EXCEPT ![w] = PostCondition(@, fs)]
    /\ hist' = [hist EXCEPT ![w].observed =
                  IF fs[frame[w].output_filename].exists THEN "present" ELSE "absent"]
    /\ rowlog' = IF proc[w].pc = "call"
                 THEN [rowlog EXCEPT ![proc[w].cur].observed = hist'[w].observed]
                 ELSE rowlog
    /\ UNCHANGED <<runs, ds, fs, proc, out>>

\* (mutant) the returned status is dropped: status stays as first assigned
ReturnedStatus_Initial(p, f) == TRUE

\* status, log = <the return value>
ReturnedStatus(p, f) == IF p.pc = "call" THEN f.ret.status ELSE p.status

\* example['audio'], example['download_status'], return example; the worker
\* goes on to the next row of its shard
ProcessStore(w) ==
    /\ \/ proc[w].pc = "store"
       \/ proc[w].pc = "call" /\ frame[w].pc = "ret"
    /\ out' = [out EXCEPT ![proc[w].cur] =
                 [done |-> TRUE, audio |-> proc[w].outfile_path,
                  download_status |-> ReturnedStatus(proc[w], frame[w])]]
    /\ proc' = [proc EXCEPT ![w] = [@ EXCEPT !.pc = "idle", !.cur = @ + 1,
                                             !.status = ReturnedStatus(proc[w], frame[w])]]
    /\ frame' = [frame EXCEPT ![w] = NoFrame]
    /\ hist' = [hist EXCEPT ![w] = NoHist]
    /\ UNCHANGED <<runs, ds, fs, rowlog>>

Fetch(w) ==
    \/ InvokeFail(w)
    \/ InvokeOk(w)
    \/ PostCheck(w)

Worker(w) ==
    \/ ProcessExamine(w)
    \/ Fetch(w)
    \/ ProcessStore(w)

Next == \E w \in Workers : Worker(w)

\* main() is run again once the first run is over: the same dataset, the
\* files the first run left in data_dir, every worker back at the first row
\* of its shard
Rerun ==
    /\ runs.n = 1
    /\ \A r \in Rows : out[r].done
    /\ runs' = [n |-> 2,
                status |-> [r \in Rows |-> out[r].download_status],
                present |-> {r \in Rows :
                               path_exists(fs, outfile_path(data_dir, ds[r].ytid))}]
    /\ proc' = [w \in Workers |-> [NoProc EXCEPT !.cur = ShardStart(w) + 1]]
    /\ frame' = [w \in Workers |-> NoFrame]
    /\ hist' = [w \in Workers |-> NoHist]
    /\ out' = [r \in Rows |-> NoOut]
    /\ rowlog' = [r \in Rows |-> NoRow]
    /\ UNCHANGED <<ds, fs>>

NextRerun == Next \/ Rerun

NextFetch == DownloadClipEnter(1) \/ Fetch(1)

Spec == Init /\ [][Next]_vars

SpecRerun == Init /\ [][NextRerun]_vars

SpecFetch == InitFetch /\ [][NextFetch]_vars

\* every worker process keeps running and every invocation of the tool returns
FairSpec == Spec /\ \A w \in Workers : WF_vars(Worker(w))

\* the caller of download_clip keeps running and every invocation returns
FairSpecFetch == SpecFetch /\ WF_vars(NextFetch)

(* ------------------------------ claims -------------------------------- *)

\* the call of worker w has entered download_clip's loop or is past it
Entered(w) == frame[w].pc \in {"loop", "post", "ret"}

Returned(w) == frame[w].pc = "ret"

\* C1: once download_clip has adjusted the window, the window handed to the
\* tool is (start_time - 15, end_time + 15) when the start_time passed in is
\* greater than 15 and (start_time, end_time + 30) otherwise, 15 included;
\* the command line carries exactly that window.
C1_WindowAdjustment ==
    \A w \in Workers :
        Entered(w) =>
            LET s == hist[w].start_time
                e == hist[w].end_time
                f == frame[w]
            IN /\ s > 15 => f.start_time = s - 15 /\ f.end_time = e + 15
               /\ s <= 15 => f.start_time = s /\ f.end_time = e + 30
               /\ f.command = Command(f.output_filename,
                                      <<f.start_time, f.end_time>>,
                                      f.video_identifier)

C1_Witness ==
    /\ frame[1].pc = "loop"
    /\ hist[1].start_time = 15
    /\ frame[1].start_time = 15
    /\ frame[1].end_time = hist[1].end_time + 30

\* C2: a call that has returned with every invocation failed returns
\* success = false with the output of the last failed invocation, after
\* exactly num_attempts invocations; while every invocation fails no
\* invocation is made beyond the budget (num_attempts >= 1).
C2_ExhaustedBudget ==
    \A w \in Workers :
        /\ Returned(w) /\ hist[w].firstOk = 0 =>
              /\ frame[w].ret.status = FALSE
              /\ frame[w].ret.msg = hist[w].lastOut
              /\ hist[w].invocations = frame[w].num_attempts
              /\ frame[w].attempts = frame[w].num_attempts
        /\ Entered(w) /\ hist[w].firstOk = 0 /\ frame[w].num_attempts >= 1 =>
              hist[w].invocations <= frame[w].num_attempts

C2_Witness ==
    /\ Returned(1)
    /\ hist[1].firstOk = 0
    /\ frame[1].num_attempts = MaxAttempts
    /\ hist[1].invocations = MaxAttempts
    /\ frame[1].ret.status = FALSE

\* C3: no invocation follows the first successful one, and a call whose
\* k-th invocation was the first to succeed and whose file existed at the
\* check returns (true, "Downloaded") after exactly k invocations, k - 1 of
\* them failed.
C3_FirstSuccessStops ==
    \A w \in Workers :
        /\ hist[w].firstOk # 0 => hist[w].invocations = hist[w].firstOk
        /\ Returned(w) /\ hist[w].firstOk # 0 /\ hist[w].observed = "present" =>
              /\ frame[w].ret = [status |-> TRUE, msg |-> "Downloaded"]
              /\ frame[w].attempts = hist[w].firstOk - 1

C3_Witness ==
    /\ Returned(1)
    /\ frame[1].num_attempts = MaxAttempts
    /\ hist[1].firstOk = MaxAttempts
    /\ hist[1].observed = "present"
    /\ frame[1].ret.status = TRUE

\* C4: a call whose invocation succeeded and whose destination file did not
\* exist at the check returns success = false.
C4_MissingFileFails ==
    \A w \in Workers :
        Returned(w) /\ hist[w].firstOk # 0 /\ hist[w].observed = "absent" =>
            frame[w].ret.status = FALSE

C4_Witness ==
    /\ Returned(1)
    /\ hist[1].firstOk = 1
    /\ hist[1].observed = "absent"
    /\ ~frame[1].ret.status

\* C5: after a successful invocation with the destination file missing the
\* returned message is the tool's captured output; the message is
\* "Downloaded" only when the file exists.
C5_MissingFileMessage ==
    \A w \in Workers :
        Returned(w) /\ hist[w].firstOk # 0 =>
            /\ hist[w].observed = "absent" => frame[w].ret.msg = frame[w].output
            /\ frame[w].ret.msg = "Downloaded" => hist[w].observed = "present"

\* C6 as stated: download_clip returns success = false only if num_attempts
\* invocations failed.
C6_OnlyExhaustionFails ==
    \A w \in Workers :
        Returned(w) /\ ~frame[w].ret.status =>
            /\ hist[w].firstOk = 0
            /\ frame[w].attempts = frame[w].num_attempts

\* C6 amended: download_clip returns success = false only if num_attempts
\* invocations failed, or an invocation succeeded and the destination file
\* did not exist at the check after it.
C6_FailureCauses ==
    \A w \in Workers :
        Returned(w) /\ ~frame[w].ret.status =>
            \/ /\ hist[w].firstOk = 0
               /\ frame[w].attempts = frame[w].num_attempts
               /\ hist[w].invocations = frame[w].num_attempts
            \/ /\ hist[w].firstOk # 0
               /\ hist[w].observed = "absent"

C6_Witness ==
    /\ Returned(1)
    /\ ~frame[1].ret.status
    /\ hist[1].firstOk = 2
    /\ frame[1].attempts = 1
    /\ hist[1].observed = "absent"

\* C7: the invocations of one call never exceed num_attempts, for every
\* num_attempts >= 0.
C7_InvocationsWithinBudget ==
    \A w \in Workers :
        Entered(w) => hist[w].invocations <= frame[w].num_attempts

\* the destination path of row r
RowPath(r) == outfile_path(data_dir, ds[r].ytid)

\* C8: a row whose destination file existed when process() examined it has
\* no invocation of the tool made for it, no write to the file by its
\* processing, and download_status true once recorded; the tool is invoked
\* only for rows whose file was absent when examined.
C8_ExistingRowsSkipped ==
    \A r \in Rows :
        /\ rowlog[r].examined = "present" =>
              /\ ~rowlog[r].invoked
              /\ r \notin fs[RowPath(r)].writers
              /\ out[r].done => out[r].download_status = TRUE
        /\ rowlog[r].invoked => rowlog[r].examined = "absent"
        /\ \A w \in Workers :
              proc[w].pc = "call" /\ proc[w].cur = r => rowlog[r].examined = "absent"

C8_Witness ==
    \E r1, r2 \in Rows :
        /\ r1 # r2
        /\ rowlog[r1].invoked
        /\ r1 \in fs[RowPath(r2)].writers
        /\ rowlog[r2].examined = "present"
        /\ out[r2].done
        /\ out[r2].download_status

AllRowsRecorded == \A r \in Rows : out[r].done

\* C9: a row on which download_clip exhausted its attempts is recorded with
\* download_status false, and every row of the dataset is eventually
\* recorded, whatever happened to the other rows.
C9_FailureIsolated ==
    /\ [](\A r \in Rows :
             rowlog[r].exhausted /\ out[r].done => out[r].download_status = FALSE)
    /\ <>[]AllRowsRecorded

C9_Witness ==
    /\ AllRowsRecorded
    /\ \E r1, r2 \in Rows :
          /\ r1 < r2
          /\ WorkerOf(r1) = WorkerOf(r2)
          /\ rowlog[r1].exhausted
          /\ ~out[r1].download_status
          /\ rowlog[r2].invoked
          /\ out[r2].download_status

\* worker w is inside download_clip for a row
Fetching(w) == proc[w].pc = "call" /\ frame[w].pc \in {"loop", "post", "ret"}

\* C10 as stated: no two concurrent calls of download_clip have the same
\* destination path, and no destination file is written for two workers.
C10_DistinctPaths ==
    /\ \A w1, w2 \in Workers :
          w1 # w2 /\ Fetching(w1) /\ Fetching(w2) =>
              frame[w1].output_filename # frame[w2].output_filename
    /\ \A p \in Paths : \A r1, r2 \in fs[p].writers :
          WorkerOf(r1) = WorkerOf(r2)

\* C10 amended: two concurrent calls of download_clip have the same
\* destination path only if their rows carry the same identifier, and all
\* the rows a destination file is written for carry the same identifier.
C10_DistinctPathsForDistinctIds ==
    /\ \A w1, w2 \in Workers :
          /\ w1 # w2 /\ Fetching(w1) /\ Fetching(w2)
          /\ ds[proc[w1].cur].ytid # ds[proc[w2].cur].ytid
          => frame[w1].output_filename # frame[w2].output_filename
    /\ \A p \in Paths : \A r1, r2 \in fs[p].writers :
          ds[r1].ytid = ds[r2].ytid

C10_Witness ==
    \E w1, w2 \in Workers :
        /\ w1 # w2 /\ Fetching(w1) /\ Fetching(w2)
        /\ ds[proc[w1].cur].ytid # ds[proc[w2].cur].ytid
        /\ proc[w1].cur \in fs[frame[w1].output_filename].writers
        /\ proc[w2].cur \in fs[frame[w2].output_filename].writers

\* C12: a call with num_attempts >= 1 eventually returns a result, whatever
\* the invocations' outcomes, and never has made more than num_attempts
\* invocations.
C12_CallTerminates ==
    /\ [](\A w \in Workers :
             Entered(w) /\ frame[w].num_attempts >= 1 =>
                 hist[w].invocations <= frame[w].num_attempts)
    /\ (frame[1].num_attempts >= 1) ~> Returned(1)

C12_Witness ==
    /\ Returned(1)
    /\ frame[1].num_attempts = 2
    /\ frame[1].attempts = 1
    /\ hist[1].invocations = 2
    /\ hist[1].firstOk = 2

\* C15: for 0 <= start_time <= end_time the adjusted window does not start
\* before 0 and is exactly 30 seconds longer than the window passed in, in
\* both branches.
C15_WindowLength ==
    \A w \in Workers :
        Entered(w) /\ 0 <= hist[w].start_time
                   /\ hist[w].start_time <= hist[w].end_time =>
            /\ frame[w].start_time >= 0
            /\ frame[w].end_time - frame[w].start_time
                 = (hist[w].end_time - hist[w].start_time) + 30

C15_Witness ==
    /\ Entered(1)
    /\ hist[1].start_time = 16
    /\ hist[1].end_time = 40
    /\ frame[1].start_time = 1
    /\ frame[1].end_time = 55

\* C13: every invocation of one call runs the same command line: the
\* identifier and the destination path passed in and the window adjusted
\* once from the start_time and end_time passed in; the parameters of the
\* call do not change over its retries.
C13_SameCommandEveryAttempt ==
    \A w \in Workers :
        Entered(w) =>
            LET s == hist[w].start_time
                e == hist[w].end_time
                expected == IF s > 15 THEN <<s - 15, e + 15>> ELSE <<s, e + 30>>
            IN /\ \A c \in hist[w].cmds :
                    c = Command(frame[w].output_filename, expected,
                                frame[w].video_identifier)
               /\ Cardinality(hist[w].cmds) <= 1
               /\ <<frame[w].start_time, frame[w].end_time>> = expected

C13_Witness ==
    /\ Entered(1)
    /\ hist[1].invocations = 3
    /\ frame[1].attempts >= 2
    /\ hist[1].start_time = 30
    /\ frame[1].start_time = 15
    /\ Cardinality(hist[1].cmds) = 1

\* C14: a row recorded with download_status true had its destination file
\* seen to exist when the status was determined: by the existence check of
\* process() (the row was skipped) or by the post-condition check of its
\* download_clip call.
C14_TrueStatusMeansFileSeen ==
    \A r \in Rows :
        out[r].done /\ out[r].download_status =>
            \/ rowlog[r].examined = "present"
            \/ /\ rowlog[r].examined = "absent"
               /\ rowlog[r].invoked
               /\ rowlog[r].observed = "present"

C14_Witness ==
    \E r1, r2 \in Rows :
        /\ out[r1].done /\ out[r1].download_status
        /\ rowlog[r1].examined = "absent" /\ rowlog[r1].observed = "present"
        /\ out[r2].done /\ ~out[r2].download_status
        /\ rowlog[r2].observed = "absent"

\* C11: in a second run of main() over the same rows, a row whose
\* destination file the first run left in place (every row the first run
\* recorded with download_status true is one) has no invocation of the tool
\* made for it and is recorded with download_status true; after a first run
\* that recorded every row true the second run makes no invocation at all.
C11_RerunSkipsDownloaded ==
    runs.n = 2 =>
        /\ \A r \in Rows : runs.status[r] => r \in runs.present
        /\ \A r \in runs.present :
              /\ ~rowlog[r].invoked
              /\ rowlog[r].examined # "absent"
              /\ out[r].done => out[r].download_status = TRUE
        /\ (\A r \in Rows : runs.status[r]) =>
              /\ \A r \in Rows : ~rowlog[r].invoked
              /\ \A w \in Workers : hist[w].invocations = 0 /\ frame[w].pc = "none"

C11_Witness ==
    /\ runs.n = 2
    /\ \A r \in Rows : runs.status[r]
    /\ \E r \in Rows : fs[RowPath(r)].writers # {}
    /\ \A r \in Rows : out[r].done /\ out[r].download_status /\ ~rowlog[r].invoked

====
